---- MODULE Spec2Model ----
(***************************************************************************)
(* WatchMe Vault API (src/app.py): the path-keyed artifact store.          *)
(*                                                                         *)
(* Strings are TLA+ strings, read character by character with SubSeq.      *)
(* The filesystem is a set of directories and a function from files to     *)
(* their bytes, both keyed by the canonical location (the sequence of path *)
(* components from "/") that the kernel resolves a path string to.         *)
(***************************************************************************)
EXTENDS Integers, Sequences, FiniteSets, TLC

VARIABLES
    files,      \* canonical location -> content, the regular files
    dirs,       \* the set of canonical locations that are directories
    resp,       \* the request just served and its response, until it is sent
    lastPut,    \* history: key -> location and payload of its last completed upload
    inflight    \* the uploads suspended at their await, by request id

vars == <<files, dirs, resp, lastPut, inflight>>

-----------------------------------------------------------------------------
(* Strings *)

Ch(s, i) == SubSeq(s, i, i)

StartsWith(s, p) == Len(s) >= Len(p) /\ SubSeq(s, 1, Len(p)) = p

EndsWith(s, p) == Len(s) >= Len(p) /\ SubSeq(s, Len(s) - Len(p) + 1, Len(s)) = p

Contains(s, p) == \E i \in 1..(Len(s) - Len(p) + 1) : SubSeq(s, i, i + Len(p) - 1) = p

\* the index of the first "/" of s at or after i, or Len(s)+1
RECURSIVE NextSlash(_, _)
NextSlash(s, i) ==
    IF i > Len(s) THEN Len(s) + 1
    ELSE IF Ch(s, i) = "/" THEN i
    ELSE NextSlash(s, i + 1)

\* str.split('/') from position i on
RECURSIVE SplitFrom(_, _)
SplitFrom(s, i) ==
    LET j == NextSlash(s, i)
    IN  IF j > Len(s) THEN <<SubSeq(s, i, Len(s))>>
        ELSE <<SubSeq(s, i, j - 1)>> \o SplitFrom(s, j + 1)

Split(s) == SplitFrom(s, 1)

\* the index of the last "/" of s at or before i, or 0
RECURSIVE LastSlash(_, _)
LastSlash(s, i) ==
    IF i < 1 THEN 0
    ELSE IF Ch(s, i) = "/" THEN i
    ELSE LastSlash(s, i - 1)

RECURSIVE RStripSlash(_)
RStripSlash(s) ==
    IF Len(s) > 0 /\ Ch(s, Len(s)) = "/" THEN RStripSlash(SubSeq(s, 1, Len(s) - 1)) ELSE s

-----------------------------------------------------------------------------
(* posixpath *)

\* os.path.join(a, b): an absolute b discards a
Join(a, b) ==
    IF StartsWith(b, "/") THEN b
    ELSE IF a = "" \/ EndsWith(a, "/") THEN a \o b
    ELSE a \o "/" \o b

Join3(a, b, c) == Join(Join(a, b), c)

Join4(a, b, c, d) == Join(Join3(a, b, c), d)

Join5(a, b, c, d, e) == Join(Join4(a, b, c, d), e)

\* os.path.dirname(p)
Dirname(p) ==
    LET head == SubSeq(p, 1, LastSlash(p, Len(p)))
    IN  IF RStripSlash(head) = "" THEN head ELSE RStripSlash(head)

\* os.path.basename(p)
Basename(p) == SubSeq(p, LastSlash(p, Len(p)) + 1, Len(p))

BASE_DIR == "/home/ubuntu/data/data_accounts"

-----------------------------------------------------------------------------
(* re.match(path_pattern, file_path) *)

Digits == {"0", "1", "2", "3", "4", "5", "6", "7", "8", "9"}

\* [a-zA-Z0-9_-]
IdChars ==
    {"a", "b", "c", "d", "e", "f", "g", "h", "i", "j", "k", "l", "m",
     "n", "o", "p", "q", "r", "s", "t", "u", "v", "w", "x", "y", "z",
     "A", "B", "C", "D", "E", "F", "G", "H", "I", "J", "K", "L", "M",
     "N", "O", "P", "Q", "R", "S", "T", "U", "V", "W", "X", "Y", "Z",
     "_", "-"} \cup Digits

Lit(c) == [k |-> "lit", c |-> c]

Cls(S) == [k |-> "cls", cls |-> S]

Plus(S) == [k |-> "plus", cls |-> S]

\* r'^[a-zA-Z0-9_-]+/\d{4}-\d{2}-\d{2}/raw/\d{2}-\d{2}\.wav$'
path_pattern ==
    <<Plus(IdChars), Lit("/"),
      Cls(Digits), Cls(Digits), Cls(Digits), Cls(Digits), Lit("-"),
      Cls(Digits), Cls(Digits), Lit("-"), Cls(Digits), Cls(Digits),
      Lit("/"), Lit("r"), Lit("a"), Lit("w"), Lit("/"),
      Cls(Digits), Cls(Digits), Lit("-"), Cls(Digits), Cls(Digits),
      Lit("."), Lit("w"), Lit("a"), Lit("v")>>

\* the mutant of AtDollar: the pattern without its '$'
AtDollarMissing(s, j) == TRUE

\* '$' without re.MULTILINE: at the end, or just before a final newline
AtDollar(s, j) == j = Len(s) + 1 \/ (j = Len(s) /\ Ch(s, j) = "\n")

\* the pattern from element i on matches s from position j on, up to '$'
RECURSIVE MatchFrom(_, _, _, _)
MatchFrom(pat, i, s, j) ==
    IF i > Len(pat) THEN AtDollar(s, j)
    ELSE IF j > Len(s) THEN FALSE
    ELSE LET e == pat[i]
         IN  CASE e.k = "lit" -> Ch(s, j) = e.c /\ MatchFrom(pat, i + 1, s, j + 1)
               [] e.k = "cls" -> Ch(s, j) \in e.cls /\ MatchFrom(pat, i + 1, s, j + 1)
               [] e.k = "plus" -> /\ Ch(s, j) \in e.cls
                                  /\ \/ MatchFrom(pat, i, s, j + 1)
                                     \/ MatchFrom(pat, i + 1, s, j + 1)

ReMatch(pat, s) == MatchFrom(pat, 1, s, 1)

\* any('..' in part or part.startswith('/') or part.startswith('\\') for part in path_parts)
HasBadPart(file_path) ==
    LET path_parts == Split(file_path)
    IN  \E n \in 1..Len(path_parts) :
            \/ Contains(path_parts[n], "..")
            \/ StartsWith(path_parts[n], "/")
            \/ StartsWith(path_parts[n], "\\")

-----------------------------------------------------------------------------
(* The filesystem beneath the handlers *)

Parent(loc) == IF Len(loc) = 0 THEN loc ELSE SubSeq(loc, 1, Len(loc) - 1)

Step(cur, seg) ==
    IF seg = "" \/ seg = "." THEN cur
    ELSE IF seg = ".." THEN Parent(cur)
    ELSE Append(cur, seg)

\* path resolution: every component that another one follows must be a directory
RECURSIVE Walk(_, _, _, _)
Walk(ds, segs, i, cur) ==
    IF i > Len(segs) THEN [ok |-> TRUE, loc |-> cur]
    ELSE LET nxt == Step(cur, segs[i])
         IN  IF i < Len(segs) /\ nxt \notin ds
             THEN [ok |-> FALSE, loc |-> nxt]
             ELSE Walk(ds, segs, i + 1, nxt)

Resolve(ds, p) == Walk(ds, Split(p), 1, <<>>)

\* os.path.exists(p)
Exists(fs, ds, p) ==
    LET r == Resolve(ds, p) IN r.ok /\ (r.loc \in ds \/ r.loc \in DOMAIN fs)

\* os.makedirs(p, exist_ok=True): every missing directory along p is created in
\* turn; a regular file in the way raises, leaving what was created before it
RECURSIVE MkWalk(_, _, _, _, _)
MkWalk(fs, ds, segs, i, cur) ==
    IF i > Len(segs) THEN [ok |-> TRUE, dirs |-> ds]
    ELSE LET nxt == Step(cur, segs[i])
         IN  IF nxt \in DOMAIN fs THEN [ok |-> FALSE, dirs |-> ds]
             ELSE MkWalk(fs, ds \cup {nxt}, segs, i + 1, nxt)

Makedirs(fs, ds, p) == MkWalk(fs, ds, Split(p), 1, <<>>)

\* the mutant of OpenTrunc: the file is opened without O_TRUNC
OpenKeep(fs, loc) == IF loc \in DOMAIN fs THEN fs ELSE (loc :> "") @@ fs

\* the mutant of OpenTrunc: the other files of the directory are removed before
\* the file is opened
OpenAfterClear(fs, loc) ==
    [l \in {m \in DOMAIN fs : Parent(m) # Parent(loc)} \cup {loc} |->
        IF l = loc THEN "" ELSE fs[l]]

\* open(p, "wb"): O_CREAT | O_TRUNC, the descriptor's offset is 0
OpenTrunc(fs, loc) == (loc :> "") @@ fs

\* write(fd, data) at offset 0 of a descriptor that was not opened O_APPEND:
\* the bytes beyond the data stay
WriteAtStart(fs, loc, data) ==
    (loc :> (data \o SubSeq(fs[loc], Len(data) + 1, Len(fs[loc])))) @@ fs

\* os.makedirs(save_dir, exist_ok=True); open(save_path, "wb")
OpenUpload(fs, ds, save_dir, save_path) ==
    LET mk == Makedirs(fs, ds, save_dir)
        r == Resolve(mk.dirs, save_path)
    IN  IF mk.ok /\ r.ok /\ r.loc \notin mk.dirs
        THEN [ok |-> TRUE, files |-> OpenTrunc(fs, r.loc), dirs |-> mk.dirs, loc |-> r.loc]
        ELSE [ok |-> FALSE, files |-> fs, dirs |-> mk.dirs, loc |-> <<>>]

-----------------------------------------------------------------------------
(* json.load, then the compact json.dumps of JSONResponse.  The payloads    *)
(* are texts over the characters [ ] { } , 1 and the space; over these a    *)
(* value is an array, the empty object or a number written with 1s.         *)

CharAt(s, i) == IF i \in 1..Len(s) THEN SubSeq(s, i, i) ELSE ""

RECURSIVE SkipWs(_, _)
SkipWs(s, i) == IF CharAt(s, i) = " " THEN SkipWs(s, i + 1) ELSE i

RECURSIVE SkipOnes(_, _)
SkipOnes(s, i) == IF CharAt(s, i) = "1" THEN SkipOnes(s, i + 1) ELSE i

JsonFail == [ok |-> FALSE, i |-> 0, out |-> ""]

RECURSIVE ParseValue(_, _)
RECURSIVE ParseElems(_, _, _)
ParseValue(s, i) ==
    LET j == SkipWs(s, i)
        c == CharAt(s, j)
        k == SkipWs(s, j + 1)
    IN  CASE c = "{" -> IF CharAt(s, k) = "}" THEN [ok |-> TRUE, i |-> k + 1, out |-> "{}"]
                        ELSE JsonFail
          [] c = "[" -> IF CharAt(s, k) = "]" THEN [ok |-> TRUE, i |-> k + 1, out |-> "[]"]
                        ELSE ParseElems(s, k, "[")
          [] c = "1" -> [ok |-> TRUE, i |-> SkipOnes(s, j), out |-> SubSeq(s, j, SkipOnes(s, j) - 1)]
          [] OTHER -> JsonFail

ParseElems(s, i, acc) ==
    LET v == ParseValue(s, i)
        k == SkipWs(s, v.i)
    IN  IF ~v.ok THEN JsonFail
        ELSE CASE CharAt(s, k) = "," -> ParseElems(s, k + 1, acc \o v.out \o ",")
               [] CharAt(s, k) = "]" -> [ok |-> TRUE, i |-> k + 1, out |-> acc \o v.out \o "]"]
               [] OTHER -> JsonFail

\* f.read() of a file opened with encoding="utf-8": the bytes must be UTF-8, or
\* UnicodeDecodeError is raised.  The byte 0xFF, which no UTF-8 text holds, is
\* written "#" in the payloads of the model.
Utf8Decodes(bytes) == ~Contains(bytes, "#")

\* json.load(f) on the decoded text: the document, or JSONDecodeError
JsonLoad(s) ==
    LET v == ParseValue(s, 1)
    IN  IF v.ok /\ SkipWs(s, v.i) = Len(s) + 1 THEN [ok |-> TRUE, out |-> v.out]
        ELSE [ok |-> FALSE, out |-> ""]

-----------------------------------------------------------------------------
(* Responses *)

\* raise HTTPException(status_code=..., detail=...)
HTTPException(status_code, detail) == [status |-> status_code, body |-> [detail |-> detail]]

\* an exception no handler catches: the framework answers 500
ServerError == HTTPException(500, "Internal Server Error")

\* an upload that stored nothing
NotStored(fs, ds, r) ==
    [status |-> r.status, body |-> r.body, files |-> fs, dirs |-> ds, loc |-> {}, stored |-> FALSE]

\* the directory is made and the file opened, the data written and the file
\* closed, and JSONResponse(content) returned
StoreUpload(fs, ds, save_dir, save_path, data, content) ==
    LET o == OpenUpload(fs, ds, save_dir, save_path)
    IN  IF o.ok
        THEN [status |-> 200, body |-> content, files |-> WriteAtStart(o.files, o.loc, data),
              dirs |-> o.dirs, loc |-> {o.loc}, stored |-> TRUE]
        ELSE NotStored(fs, o.dirs, ServerError)

-----------------------------------------------------------------------------
(* Upload handlers *)

\* POST /upload; file_path is the X-File-Path header, "" when it is absent
upload_file(fs, ds, file_path, device_id, data) ==
    IF file_path # ""
    THEN IF ~ReMatch(path_pattern, file_path)
         THEN NotStored(fs, ds, HTTPException(400,
                  "Invalid file path format. Expected: device_id/YYYY-MM-DD/raw/HH-MM.wav"))
         ELSE IF HasBadPart(file_path)
         THEN NotStored(fs, ds, HTTPException(400, "Invalid path components detected"))
         ELSE LET save_path == Join(BASE_DIR, file_path)
                  save_dir == Dirname(save_path)
              IN  StoreUpload(fs, ds, save_dir, save_path, data,
                      [status |-> "ok", path |-> save_path, device_id |-> device_id,
                       file_path |-> file_path, method |-> "client_specified"])
    ELSE NotStored(fs, ds, HTTPException(400,
             "X-File-Path header is required for audio file uploads"))

\* POST /upload-transcription
upload_transcription(fs, ds, device_id, date, time_block, data) ==
    LET save_dir == Join4(BASE_DIR, device_id, date, "transcriptions")
        save_path == Join(save_dir, time_block \o ".json")
    IN  StoreUpload(fs, ds, save_dir, save_path, data,
            [status |-> "success", path |-> save_path, device_id |-> device_id])

\* POST /upload-prompt
upload_prompt(fs, ds, filename, device_id, date, data) ==
    IF ~EndsWith(filename, ".json")
    THEN NotStored(fs, ds, HTTPException(400, "Only .json allowed"))
    ELSE LET save_dir == Join4(BASE_DIR, device_id, date, "prompt")
             save_path == Join(save_dir, "emotion-timeline_gpt_prompt.json")
         IN  StoreUpload(fs, ds, save_dir, save_path, data,
                 [status |-> "ok", path |-> save_path, device_id |-> device_id])

\* POST /upload/analysis/emotion-timeline
upload_emotion_timeline(fs, ds, filename, device_id, date, data) ==
    IF ~EndsWith(filename, ".json")
    THEN NotStored(fs, ds, HTTPException(400, "Only .json allowed"))
    ELSE LET save_dir == Join4(BASE_DIR, device_id, date, "emotion-timeline")
             save_path == Join(save_dir, "emotion-timeline.json")
         IN  StoreUpload(fs, ds, save_dir, save_path, data,
                 [status |-> "ok", path |-> save_path, device_id |-> device_id])

\* POST /upload/analysis/sed-timeline
upload_sed_timeline(fs, ds, filename, device_id, date, time_block, data) ==
    IF ~EndsWith(filename, ".json")
    THEN NotStored(fs, ds, HTTPException(400, "Only .json files allowed"))
    ELSE LET save_dir == Join4(BASE_DIR, device_id, date, "sed")
             save_path == Join(save_dir, time_block \o ".json")
         IN  StoreUpload(fs, ds, save_dir, save_path, data,
                 [status |-> "ok", path |-> save_path, device_id |-> device_id])

\* the mutant of upload_sed_summary: the directory is made before the name is checked
upload_sed_summary_late_check(fs, ds, filename, device_id, date, data) ==
    LET save_dir == Join4(BASE_DIR, device_id, date, "sed-summary")
        save_path == Join(save_dir, "result.json")
    IN  IF ~EndsWith(filename, ".json")
        THEN NotStored(fs, Makedirs(fs, ds, save_dir).dirs,
                       HTTPException(400, "Only .json files allowed"))
        ELSE StoreUpload(fs, ds, save_dir, save_path, data,
                 [status |-> "ok", path |-> save_path, device_id |-> device_id])

\* POST /upload/analysis/sed-summary
upload_sed_summary(fs, ds, filename, device_id, date, data) ==
    IF ~EndsWith(filename, ".json")
    THEN NotStored(fs, ds, HTTPException(400, "Only .json files allowed"))
    ELSE LET save_dir == Join4(BASE_DIR, device_id, date, "sed-summary")
             save_path == Join(save_dir, "result.json")
         IN  StoreUpload(fs, ds, save_dir, save_path, data,
                 [status |-> "ok", path |-> save_path, device_id |-> device_id])

\* POST /upload/analysis/opensmile-summary
upload_opensmile_summary(fs, ds, filename, device_id, date, data) ==
    IF ~EndsWith(filename, ".json")
    THEN NotStored(fs, ds, HTTPException(400, "Only .json files allowed"))
    ELSE LET save_dir == Join4(BASE_DIR, device_id, date, "opensmile-summary")
             save_path == Join(save_dir, "result.json")
         IN  StoreUpload(fs, ds, save_dir, save_path, data,
                 [status |-> "ok", path |-> save_path, device_id |-> device_id])

\* POST /upload/analysis/opensmile-features
upload_opensmile_features(fs, ds, filename, device_id, date, time_slot, data) ==
    IF ~EndsWith(filename, ".json")
    THEN NotStored(fs, ds, HTTPException(400, "Only .json files allowed"))
    ELSE LET save_dir == Join4(BASE_DIR, device_id, date, "opensmile")
             save_path == Join(save_dir, time_slot \o ".json")
         IN  StoreUpload(fs, ds, save_dir, save_path, data,
                 [status |-> "ok", path |-> save_path, device_id |-> device_id])

-----------------------------------------------------------------------------
(* Reading *)

\* a response of a read handler: the path string it built and the files it opened
Answer(r, path, loc) == [status |-> r.status, body |-> r.body, path |-> path, loc |-> loc]

\* FileResponse(path, media_type, filename): the bytes of a regular file; any
\* other kind of entry makes the response raise while it is being sent
FileResponse(fs, ds, path, media_type, filename) ==
    LET r == Resolve(ds, path)
    IN  IF r.ok /\ r.loc \in DOMAIN fs
        THEN Answer([status |-> 200,
                     body |-> [bytes |-> fs[r.loc], media_type |-> media_type,
                               filename |-> filename]], path, {r.loc})
        ELSE Answer(ServerError, path, {})

\* try: with open(file_path, "r") as f: data = json.load(f); return JSONResponse(data)
\* except json.JSONDecodeError: 400; except Exception: 500 (UnicodeDecodeError
\* is a ValueError that is not a JSONDecodeError)
JsonFetch(fs, ds, file_path, invalid_detail) ==
    LET r == Resolve(ds, file_path)
    IN  IF ~(r.ok /\ r.loc \in DOMAIN fs)
        THEN Answer(HTTPException(500, "Unexpected error"), file_path, {})
        ELSE IF ~Utf8Decodes(fs[r.loc])
        THEN Answer(HTTPException(500, "Unexpected error"), file_path, {r.loc})
        ELSE IF ~JsonLoad(fs[r.loc]).ok
        THEN Answer(HTTPException(400, invalid_detail), file_path, {r.loc})
        ELSE Answer([status |-> 200, body |-> [document |-> JsonLoad(fs[r.loc]).out]],
                    file_path, {r.loc})

\* GET /download
download_file(fs, ds, device_id, date, slot) ==
    LET file_path == BASE_DIR \o "/" \o device_id \o "/" \o date \o "/raw/" \o slot \o ".wav"
    IN  IF ~Exists(fs, ds, file_path)
        THEN Answer(HTTPException(404, "File not found"), file_path, {})
        ELSE FileResponse(fs, ds, file_path, "audio/wav", slot \o ".wav")

\* the mutant of download_sed_file: a missing file is answered with an empty body
download_sed_file_empty(fs, ds, device_id, date, slot) ==
    LET file_path == BASE_DIR \o "/" \o device_id \o "/" \o date \o "/sed/" \o slot \o ".json"
    IN  IF ~Exists(fs, ds, file_path)
        THEN Answer([status |-> 200,
                     body |-> [bytes |-> "", media_type |-> "application/json",
                               filename |-> slot \o ".json"]], file_path, {})
        ELSE FileResponse(fs, ds, file_path, "application/json", slot \o ".json")

\* GET /download-sed
download_sed_file(fs, ds, device_id, date, slot) ==
    LET file_path == BASE_DIR \o "/" \o device_id \o "/" \o date \o "/sed/" \o slot \o ".json"
    IN  IF ~Exists(fs, ds, file_path)
        THEN Answer(HTTPException(404, "SED file not found"), file_path, {})
        ELSE FileResponse(fs, ds, file_path, "application/json", slot \o ".json")

\* GET /download-opensmile
download_opensmile_file(fs, ds, device_id, date, slot) ==
    LET file_path ==
            BASE_DIR \o "/" \o device_id \o "/" \o date \o "/opensmile/" \o slot \o ".json"
    IN  IF ~Exists(fs, ds, file_path)
        THEN Answer(HTTPException(404, "OpenSMILE file not found"), file_path, {})
        ELSE FileResponse(fs, ds, file_path, "application/json", slot \o ".json")

\* GET /download-file
download_file_by_path(fs, ds, file_path) ==
    LET full_path == Join(BASE_DIR, file_path)
        filename == Basename(full_path)
        media_type == IF EndsWith(filename, ".wav") THEN "audio/wav"
                      ELSE IF EndsWith(filename, ".json") THEN "application/json"
                      ELSE "application/octet-stream"
    IN  IF ~Exists(fs, ds, full_path)
        THEN Answer(HTTPException(404, "File not found"), full_path, {})
        ELSE FileResponse(fs, ds, full_path, media_type, filename)

\* GET /view-file; the page shows the parsed document
view_file_content(fs, ds, file_path) ==
    LET full_path == Join(BASE_DIR, file_path)
        r == Resolve(ds, full_path)
    IN  IF ~Exists(fs, ds, full_path)
        THEN Answer(HTTPException(404, "File not found"), full_path, {})
        ELSE IF ~EndsWith(file_path, ".json")
        THEN Answer(HTTPException(400, "Only JSON files can be viewed"), full_path, {})
        ELSE IF r.loc \notin DOMAIN fs
        THEN Answer(HTTPException(500, "Error reading file"), full_path, {})
        ELSE IF ~Utf8Decodes(fs[r.loc])
        THEN Answer(HTTPException(500, "Error reading file"), full_path, {r.loc})
        ELSE IF ~JsonLoad(fs[r.loc]).ok
        THEN Answer(HTTPException(400, "Invalid JSON file"), full_path, {r.loc})
        ELSE Answer([status |-> 200,
                     body |-> [title |-> Basename(file_path), file_path |-> file_path,
                               document |-> JsonLoad(fs[r.loc]).out]],
                    full_path, {r.loc})

\* GET /api/devices/{device_id}/logs/{date}/emotion-timeline
get_emotion_timeline(fs, ds, device_id, date) ==
    LET file_path == Join5(BASE_DIR, device_id, date, "emotion-timeline", "emotion-timeline.json")
    IN  IF ~Exists(fs, ds, file_path)
        THEN Answer(HTTPException(404, "Emotion timeline file not found"), file_path, {})
        ELSE JsonFetch(fs, ds, file_path, "Invalid JSON format in emotion-timeline.json")

\* GET /api/users/{user_id}/logs/{date}/emotion-timeline
get_emotion_timeline_legacy(fs, ds, user_id, date) ==
    LET file_path == Join5(BASE_DIR, user_id, date, "emotion-timeline", "emotion-timeline.json")
    IN  IF ~Exists(fs, ds, file_path)
        THEN Answer(HTTPException(404, "Emotion timeline file not found"), file_path, {})
        ELSE JsonFetch(fs, ds, file_path, "Invalid JSON format in emotion-timeline.json")

\* GET /api/devices/{device_id}/logs/{date}/sed-summary
get_sed_summary(fs, ds, device_id, date) ==
    LET file_path == Join5(BASE_DIR, device_id, date, "sed-summary", "result.json")
    IN  IF ~Exists(fs, ds, file_path)
        THEN Answer(HTTPException(404, "SED summary file not found"), file_path, {})
        ELSE JsonFetch(fs, ds, file_path, "Invalid JSON format in result.json")

\* the mutant of get_sed_summary_legacy: the alias reads another file name
get_sed_summary_legacy_renamed(fs, ds, user_id, date) ==
    LET file_path == Join5(BASE_DIR, user_id, date, "sed-summary", "summary.json")
    IN  IF ~Exists(fs, ds, file_path)
        THEN Answer(HTTPException(404, "SED summary file not found"), file_path, {})
        ELSE JsonFetch(fs, ds, file_path, "Invalid JSON format in result.json")

\* GET /api/users/{user_id}/logs/{date}/sed-summary
get_sed_summary_legacy(fs, ds, user_id, date) ==
    LET file_path == Join5(BASE_DIR, user_id, date, "sed-summary", "result.json")
    IN  IF ~Exists(fs, ds, file_path)
        THEN Answer(HTTPException(404, "SED summary file not found"), file_path, {})
        ELSE JsonFetch(fs, ds, file_path, "Invalid JSON format in result.json")

\* GET /api/devices/{device_id}/logs/{date}/opensmile/{time_slot}
get_opensmile_features(fs, ds, device_id, date, time_slot) ==
    LET file_path == Join5(BASE_DIR, device_id, date, "opensmile", time_slot \o ".json")
    IN  IF ~Exists(fs, ds, file_path)
        THEN Answer(HTTPException(404, "OpenSMILE features file not found for slot " \o time_slot),
                    file_path, {})
        ELSE JsonFetch(fs, ds, file_path, "Invalid JSON format in " \o time_slot \o ".json")

\* GET /api/users/{user_id}/logs/{date}/opensmile/{time_slot}
get_opensmile_features_legacy(fs, ds, user_id, date, time_slot) ==
    LET file_path == Join5(BASE_DIR, user_id, date, "opensmile", time_slot \o ".json")
    IN  IF ~Exists(fs, ds, file_path)
        THEN Answer(HTTPException(404, "OpenSMILE features file not found for slot " \o time_slot),
                    file_path, {})
        ELSE JsonFetch(fs, ds, file_path, "Invalid JSON format in " \o time_slot \o ".json")

\* GET /api/devices/{device_id}/logs/{date}/opensmile-summary
get_opensmile_summary(fs, ds, device_id, date) ==
    LET file_path == Join5(BASE_DIR, device_id, date, "opensmile-summary", "result.json")
    IN  IF ~Exists(fs, ds, file_path)
        THEN Answer(HTTPException(404, "OpenSMILE summary file not found"), file_path, {})
        ELSE JsonFetch(fs, ds, file_path, "Invalid JSON format in result.json")

\* GET /api/users/{user_id}/logs/{date}/opensmile-summary
get_opensmile_summary_legacy(fs, ds, user_id, date) ==
    LET file_path == Join5(BASE_DIR, user_id, date, "opensmile-summary", "result.json")
    IN  IF ~Exists(fs, ds, file_path)
        THEN Answer(HTTPException(404, "OpenSMILE summary file not found"), file_path, {})
        ELSE JsonFetch(fs, ds, file_path, "Invalid JSON format in result.json")

-----------------------------------------------------------------------------
(* The OpenSMILE slot listing *)

\* the characters of the store's names in code point order
CodePoints ==
    "\n #,-./0123456789ABCDEFGHIJKLMNOPQRSTUVWXYZ[\\]_abcdefghijklmnopqrstuvwxyz{}"

Ord(c) == CHOOSE n \in 1..Len(CodePoints) : Ch(CodePoints, n) = c

\* a < b as Python compares str
RECURSIVE StrLess(_, _)
StrLess(a, b) ==
    IF Len(b) = 0 THEN FALSE
    ELSE IF Len(a) = 0 THEN TRUE
    ELSE IF Ch(a, 1) = Ch(b, 1) THEN StrLess(SubSeq(a, 2, Len(a)), SubSeq(b, 2, Len(b)))
    ELSE Ord(Ch(a, 1)) < Ord(Ch(b, 1))

\* str.replace(old, ""): every occurrence, left to right
RECURSIVE Remove(_, _)
Remove(s, old) ==
    IF Len(s) = 0 THEN s
    ELSE IF StartsWith(s, old) THEN Remove(SubSeq(s, Len(old) + 1, Len(s)), old)
    ELSE Ch(s, 1) \o Remove(SubSeq(s, 2, Len(s)), old)

\* os.listdir(loc): the names of the entries of a directory
Listdir(fs, ds, loc) ==
    {l[Len(l)] : l \in {e \in (DOMAIN fs) \cup ds : Len(e) > 0 /\ Parent(e) = loc}}

\* [f.replace('.json', '') for f in all_files] followed by list.sort()
RECURSIVE SortedSlots(_)
SortedSlots(all_files) ==
    IF all_files = {} THEN <<>>
    ELSE LET m == CHOOSE f \in all_files :
                      \A g \in all_files : ~StrLess(Remove(g, ".json"), Remove(f, ".json"))
         IN  <<Remove(m, ".json")>> \o SortedSlots(all_files \ {m})

\* the body of both listings once features_dir exists
ListSlots(fs, ds, features_dir, summary_dir) ==
    LET r == Resolve(ds, features_dir)
        all_files == {f \in Listdir(fs, ds, r.loc) : EndsWith(f, ".json")}
        time_slots == SortedSlots(all_files)
        has_summary == Exists(fs, ds, Join(summary_dir, "result.json"))
    IN  IF r.loc \notin ds
        THEN Answer(HTTPException(500, "Error listing OpenSMILE features"), features_dir, {})
        ELSE Answer([status |-> 200,
                     body |-> [available_slots |-> time_slots, count |-> Len(time_slots),
                               has_summary |-> has_summary, directory |-> features_dir]],
                    features_dir, {})

\* GET /api/devices/{device_id}/logs/{date}/opensmile
list_opensmile_features(fs, ds, device_id, date) ==
    LET features_dir == Join4(BASE_DIR, device_id, date, "opensmile")
        summary_dir == Join4(BASE_DIR, device_id, date, "opensmile-summary")
    IN  IF ~Exists(fs, ds, features_dir)
        THEN Answer([status |-> 200,
                     body |-> [available_slots |-> <<>>, count |-> 0, has_summary |-> FALSE]],
                    features_dir, {})
        ELSE ListSlots(fs, ds, features_dir, summary_dir)

\* GET /api/users/{user_id}/logs/{date}/opensmile
list_opensmile_features_legacy(fs, ds, user_id, date) ==
    LET features_dir == Join4(BASE_DIR, user_id, date, "opensmile")
        summary_dir == Join4(BASE_DIR, user_id, date, "opensmile-summary")
    IN  IF ~Exists(fs, ds, features_dir)
        THEN Answer([status |-> 200,
                     body |-> [available_slots |-> <<>>, count |-> 0, has_summary |-> FALSE]],
                    features_dir, {})
        ELSE ListSlots(fs, ds, features_dir, summary_dir)

-----------------------------------------------------------------------------
(* The tree listing of /status *)

DigitVal(c) == CHOOSE n \in 0..9 : Ch("0123456789", n + 1) = c

IsDigits(s) == Len(s) >= 1 /\ \A n \in 1..Len(s) : Ch(s, n) \in Digits

\* int(s) of a string of digits
RECURSIVE ToInt(_)
ToInt(s) ==
    IF Len(s) = 0 THEN 0
    ELSE 10 * ToInt(SubSeq(s, 1, Len(s) - 1)) + DigitVal(Ch(s, Len(s)))

\* the index of the first '-' of s at or after i, Len(s) + 1 when there is none
RECURSIVE NextDash(_, _)
NextDash(s, i) ==
    IF i > Len(s) THEN Len(s) + 1
    ELSE IF Ch(s, i) = "-" THEN i
    ELSE NextDash(s, i + 1)

IsLeap(y) == (y % 4 = 0 /\ y % 100 # 0) \/ y % 400 = 0

DaysIn(y, m) ==
    IF m = 2 THEN (IF IsLeap(y) THEN 29 ELSE 28)
    ELSE IF m \in {4, 6, 9, 11} THEN 30
    ELSE 31

\* datetime.strptime(s, "%Y-%m-%d"): %Y is four digits, %m one of 1..12 written
\* with one or two digits, %d one of 1..31 written with one or two digits or with
\* a space before one digit; the whole string must be used up and the date must
\* exist (year 0 and a day beyond the month's length raise ValueError)
strptime(s) ==
    LET p == NextDash(s, 6)
        mm == SubSeq(s, 6, p - 1)
        dd == SubSeq(s, p + 1, Len(s))
        d1 == IF Len(dd) = 2 /\ Ch(dd, 1) = " " THEN SubSeq(dd, 2, 2) ELSE dd
        shaped == /\ Len(s) >= 8
                  /\ IsDigits(SubSeq(s, 1, 4))
                  /\ Ch(s, 5) = "-"
                  /\ p <= Len(s)
                  /\ IsDigits(mm) /\ Len(mm) <= 2 /\ ToInt(mm) \in 1..12
                  /\ IsDigits(d1) /\ Len(d1) <= 2 /\ ToInt(d1) \in 1..31
                  /\ (d1 # dd => ToInt(d1) <= 9)
    IN  IF shaped /\ ToInt(SubSeq(s, 1, 4)) >= 1
                  /\ ToInt(d1) <= DaysIn(ToInt(SubSeq(s, 1, 4)), ToInt(mm))
        THEN [ok |-> TRUE, year |-> ToInt(SubSeq(s, 1, 4)), month |-> ToInt(mm),
              day |-> ToInt(d1)]
        ELSE [ok |-> FALSE, year |-> 0, month |-> 0, day |-> 0]

\* datetime.min is 0001-01-01; a datetime at midnight is ordered as year, month, day
DatetimeMin == 10101

\* the sort key of _sort_dates
to_dt(s) ==
    IF strptime(s).ok
    THEN strptime(s).year * 10000 + strptime(s).month * 100 + strptime(s).day
    ELSE DatetimeMin

\* sorted(..., key=to_dt, reverse=True) is stable: of two names with equal keys
\* the one that came first in the input comes first in the output
RECURSIVE InsertByKey(_, _)
InsertByKey(sorted, x) ==
    IF sorted = <<>> THEN <<x>>
    ELSE IF to_dt(Head(sorted)) >= to_dt(x) THEN <<Head(sorted)>> \o InsertByKey(Tail(sorted), x)
    ELSE <<x>> \o sorted

RECURSIVE _sort_dates(_)
_sort_dates(dates) ==
    IF dates = <<>> THEN <<>>
    ELSE InsertByKey(_sort_dates(SubSeq(dates, 1, Len(dates) - 1)), dates[Len(dates)])

\* p.iterdir() with p.is_dir(): the names of the subdirectories of a directory
SubdirNames(ds, loc) == {d[Len(d)] : d \in {e \in ds : Len(e) = Len(loc) + 1 /\ Parent(e) = loc}}

\* p.iterdir() with p.is_file(): the names of the regular files of a directory
FileNames(fs, loc) ==
    {f[Len(f)] : f \in {e \in DOMAIN fs : Len(e) = Len(loc) + 1 /\ Parent(e) = loc}}

\* sorted(...) of the entries of one directory: Path objects with one parent are
\* ordered as their names are
RECURSIVE Sorted(_)
Sorted(names) ==
    IF names = {} THEN <<>>
    ELSE LET m == CHOOSE f \in names : \A g \in names : ~StrLess(g, f)
         IN  <<m>> \o Sorted(names \ {m})

\* str(full_path.relative_to(base_path))
RECURSIVE RelativeFrom(_, _)
RelativeFrom(loc, n) ==
    IF n > Len(loc) THEN ""
    ELSE IF n = Len(loc) THEN loc[n]
    ELSE loc[n] \o "/" \o RelativeFrom(loc, n + 1)

_get_relative_path(full_path, base_path) == RelativeFrom(full_path, Len(base_path) + 1)

\* urllib.parse.quote: letters, digits and _ . - ~ / stay, any other character
\* becomes % and the two hex digits of its byte
QuoteChar(c) ==
    CASE c = "\n" -> "%0A"
      [] c = " " -> "%20"
      [] c = "#" -> "%23"
      [] c = "," -> "%2C"
      [] c = "[" -> "%5B"
      [] c = "\\" -> "%5C"
      [] c = "]" -> "%5D"
      [] c = "{" -> "%7B"
      [] c = "}" -> "%7D"
      [] OTHER -> c

RECURSIVE Quote(_)
Quote(s) == IF Len(s) = 0 THEN "" ELSE QuoteChar(Ch(s, 1)) \o Quote(SubSeq(s, 2, Len(s)))

\* a line of the page
Line(kind, name, indent, links) ==
    [kind |-> kind, name |-> name, indent |-> indent, links |-> links]

\* the line of a file: .wav links to the download, .json to the view and the
\* download, any other name to the download
FileLine(f, base_path, indent_lvl) ==
    LET name == f[Len(f)]
        encoded_path == Quote(_get_relative_path(f, base_path))
        download_link == "/download-file?file_path=" \o encoded_path
        view_link == "/view-file?file_path=" \o encoded_path
    IN  Line("file", name, 4 * indent_lvl,
             IF EndsWith(name, ".wav") THEN <<download_link>>
             ELSE IF EndsWith(name, ".json") THEN <<view_link, download_link>>
             ELSE <<download_link>>)

\* the mutant of _walk_dir_with_links: the files of a directory come before its
\* subdirectories
RECURSIVE walk_files_first(_, _, _, _, _)
RECURSIVE DirsFilesFirst(_, _, _, _, _, _)
walk_files_first(fs, ds, path, base_path, indent_lvl) ==
    LET fnames == Sorted(FileNames(fs, path))
    IN  [i \in 1..Len(fnames) |-> FileLine(Append(path, fnames[i]), base_path, indent_lvl)]
        \o DirsFilesFirst(fs, ds, path, base_path, indent_lvl, Sorted(SubdirNames(ds, path)))

DirsFilesFirst(fs, ds, path, base_path, indent_lvl, names) ==
    IF names = <<>> THEN <<>>
    ELSE <<Line("dir", Head(names), 4 * indent_lvl, <<>>)>>
         \o walk_files_first(fs, ds, Append(path, Head(names)), base_path, indent_lvl + 1)
         \o DirsFilesFirst(fs, ds, path, base_path, indent_lvl, Tail(names))

\* _walk_dir_with_links: the subdirectories in ascending order, each followed
\* by its own walk, then the files in ascending order
RECURSIVE _walk_dir_with_links(_, _, _, _, _)
RECURSIVE WalkDirs(_, _, _, _, _, _)
_walk_dir_with_links(fs, ds, path, base_path, indent_lvl) ==
    LET fnames == Sorted(FileNames(fs, path))
    IN  WalkDirs(fs, ds, path, base_path, indent_lvl, Sorted(SubdirNames(ds, path)))
        \o [i \in 1..Len(fnames) |-> FileLine(Append(path, fnames[i]), base_path, indent_lvl)]

WalkDirs(fs, ds, path, base_path, indent_lvl, names) ==
    IF names = <<>> THEN <<>>
    ELSE <<Line("dir", Head(names), 4 * indent_lvl, <<>>)>>
         \o _walk_dir_with_links(fs, ds, Append(path, Head(names)), base_path, indent_lvl + 1)
         \o WalkDirs(fs, ds, path, base_path, indent_lvl, Tail(names))

\* the date level of one device: a date line, the walk of the date directory
\* at indent level 2, and an empty line
RECURSIVE DateBlocks(_, _, _, _, _)
DateBlocks(fs, ds, device_dir, base, date_names) ==
    IF date_names = <<>> THEN <<>>
    ELSE <<Line("date", Head(date_names), 2, <<>>)>>
         \o _walk_dir_with_links(fs, ds, Append(device_dir, Head(date_names)), base, 2)
         \o <<Line("", "", 0, <<>>)>>
         \o DateBlocks(fs, ds, device_dir, base, Tail(date_names))

\* the device level: the device directories in ascending order; iterdir[d] is
\* the order in which the directory d yields its subdirectories
RECURSIVE DeviceBlocks(_, _, _, _, _)
DeviceBlocks(fs, ds, base, device_names, iterdir) ==
    IF device_names = <<>> THEN <<>>
    ELSE <<Line("device", Head(device_names), 0, <<>>)>>
         \o DateBlocks(fs, ds, Append(base, Head(device_names)), base,
                       _sort_dates(iterdir[Append(base, Head(device_names))]))
         \o DeviceBlocks(fs, ds, base, Tail(device_names), iterdir)

\* HTMLResponse(...): a page, status 200
HTMLResponse(kind, lines) == [status |-> 200, body |-> [page |-> kind, lines |-> lines]]

\* the mutant of status_all: the handler without its try/except
status_all_uncaught(fs, ds, iterdir) ==
    LET base == Resolve(ds, BASE_DIR).loc
    IN  IF ~Exists(fs, ds, BASE_DIR)
        THEN Answer(HTMLResponse("missing", <<>>), BASE_DIR, {})
        ELSE IF base \notin ds
        THEN Answer(ServerError, BASE_DIR, {})
        ELSE Answer(HTMLResponse("listing",
                                 DeviceBlocks(fs, ds, base, Sorted(SubdirNames(ds, base)),
                                              iterdir)),
                    BASE_DIR, {})

\* GET /status: the message for a missing BASE_DIR, the listing, or the page
\* of the except branch when a step raises (base.iterdir() of a BASE_DIR that
\* is not a directory raises NotADirectoryError)
status_all(fs, ds, iterdir) ==
    LET base == Resolve(ds, BASE_DIR).loc
    IN  IF ~Exists(fs, ds, BASE_DIR)
        THEN Answer(HTMLResponse("missing", <<>>), BASE_DIR, {})
        ELSE IF base \notin ds
        THEN Answer(HTMLResponse("error", <<>>), BASE_DIR, {})
        ELSE Answer(HTMLResponse("listing",
                                 DeviceBlocks(fs, ds, base, Sorted(SubdirNames(ds, base)),
                                              iterdir)),
                    BASE_DIR, {})

\* the sequences that hold every element of S once
Perms(S) ==
    {q \in [1..Cardinality(S) -> S] : \A i, j \in 1..Cardinality(S) : q[i] = q[j] => i = j}

\* the directory order of the filesystem is arbitrary: for every device
\* directory, any order of its subdirectories
IterOrders(ds, base) ==
    LET devs == {d \in ds : Len(d) = Len(base) + 1 /\ Parent(d) = base}
    IN  {o \in [devs -> UNION {Perms(SubdirNames(ds, d)) : d \in devs}] :
            \A d \in devs : o[d] \in Perms(SubdirNames(ds, d))}

-----------------------------------------------------------------------------
(* The requests of the model *)

\* the number of distinct keys a run uploads to
MaxKeys == 2

DeviceIds == {"d"}

Dates == {"2025-06-21"}

\* a time block, and a slot string that climbs out of the category directory
Slots == {"08-00", "../../../../x"}

\* the names of the uploaded file part
Filenames == {"r.json", "r.wav"}

\* the bytes of the uploaded file part: a JSON text, a text that is not JSON,
\* and bytes that are not UTF-8
Payloads == {"[1]", "{", "#"}

\* X-File-Path headers ("": no header); a header value holds no line break
HeaderPaths ==
    {"", "d/2025-06-21/raw/08-00.wav", "d/2025-06-21/raw/99-99.wav",
     "d/2025-6-21/raw/08-00.wav", "d/2025-06-21/raw/0800.wav",
     "d/2025-06-21/raw/08-00.wavx", "x/d/2025-06-21/raw/08-00.wav",
     "d/2025-06-21/raw/../raw/08-00.wav", "/2025-06-21/raw/08-00.wav",
     "d.e/2025-06-21/raw/08-00.wav", "d/2025-06-21/sed/08-00.wav",
     "d/2025-06-21/raw/08-00xwav"}

\* file_path queries of /download-file and /view-file
QueryPaths ==
    {"d/2025-06-21/raw/08-00.wav", "d/2025-06-21/sed/08-00.json",
     "d/2025-06-21/transcriptions/08-00.json",
     "d/2025-06-21/prompt/emotion-timeline_gpt_prompt.json",
     "d/2025-06-21/sed/../sed/08-00.json", "../x.json", "\\x.json", "d/2025-06-21"}

Key(device_id, date, category, name) ==
    [device_id |-> device_id, date |-> date, category |-> category, name |-> name]

\* the key an accepted X-File-Path names
HeaderKey(file_path) ==
    LET parts == Split(file_path)
    IN  IF Len(parts) = 4
        THEN Key(parts[1], parts[2], parts[3], SubSeq(parts[4], 1, Len(parts[4]) - 4))
        ELSE Key("", "", "", "")

BaseLoc == <<"home", "ubuntu", "data", "data_accounts">>

Prefixes(loc) == {SubSeq(loc, 1, n) : n \in 0..Len(loc)}

NoResp == [ep |-> "", args |-> <<>>, status |-> 0, body |-> <<>>, loc |-> {}]

\* the process starts with the data directory of the host, with or without BASE_DIR
Init ==
    /\ files = <<>>
    /\ dirs \in {Prefixes(BaseLoc), Prefixes(Parent(BaseLoc))}
    /\ resp = NoResp
    /\ lastPut = <<>>
    /\ inflight = <<>>

\* a request is taken up once the response to the one before it has been sent
Idle == resp = NoResp

\* an upload request served from start to end; the handler runs once
Upload(ep, args, key, data, handled) ==
    \E r \in {handled} :
    /\ r.stored => (key \in DOMAIN lastPut \/ Cardinality(DOMAIN lastPut) < MaxKeys)
    /\ files' = r.files
    /\ dirs' = r.dirs
    /\ resp' = [ep |-> ep, args |-> args, status |-> r.status, body |-> r.body, loc |-> r.loc]
    /\ lastPut' = IF r.stored
                  THEN (key :> [loc |-> r.loc, data |-> data]) @@ lastPut
                  ELSE lastPut
    /\ UNCHANGED inflight

\* a read request served from start to end; the handler runs once
Read(ep, args, handled) ==
    \E r \in {handled} :
    /\ resp' = [ep |-> ep, args |-> args, status |-> r.status, body |-> r.body, loc |-> r.loc,
                path |-> r.path]
    /\ UNCHANGED <<files, dirs, lastPut, inflight>>

\* the response has gone out; the next request is taken up
SendResponse ==
    /\ resp # NoResp
    /\ resp' = NoResp
    /\ UNCHANGED <<files, dirs, lastPut, inflight>>

UploadFile ==
    /\ Idle
    /\ \E file_path \in HeaderPaths, device_id \in DeviceIds, data \in Payloads :
        Upload("upload_file", [file_path |-> file_path, device_id |-> device_id],
               HeaderKey(file_path), data,
               upload_file(files, dirs, file_path, device_id, data))

UploadTranscription ==
    /\ Idle
    /\ \E device_id \in DeviceIds, date \in Dates, time_block \in Slots, data \in Payloads :
        Upload("upload_transcription",
               [device_id |-> device_id, date |-> date, slot |-> time_block],
               Key(device_id, date, "transcriptions", time_block), data,
               upload_transcription(files, dirs, device_id, date, time_block, data))

UploadPrompt ==
    /\ Idle
    /\ \E filename \in Filenames, device_id \in DeviceIds, date \in Dates, data \in Payloads :
        Upload("upload_prompt",
               [filename |-> filename, device_id |-> device_id, date |-> date],
               Key(device_id, date, "prompt", "emotion-timeline_gpt_prompt.json"), data,
               upload_prompt(files, dirs, filename, device_id, date, data))

UploadEmotionTimeline ==
    /\ Idle
    /\ \E filename \in Filenames, device_id \in DeviceIds, date \in Dates, data \in Payloads :
        Upload("upload_emotion_timeline",
               [filename |-> filename, device_id |-> device_id, date |-> date],
               Key(device_id, date, "emotion-timeline", "emotion-timeline.json"), data,
               upload_emotion_timeline(files, dirs, filename, device_id, date, data))

UploadSedTimeline ==
    /\ Idle
    /\ \E filename \in Filenames, device_id \in DeviceIds, date \in Dates,
       time_block \in Slots, data \in Payloads :
        Upload("upload_sed_timeline",
               [filename |-> filename, device_id |-> device_id, date |-> date,
                slot |-> time_block],
               Key(device_id, date, "sed", time_block), data,
               upload_sed_timeline(files, dirs, filename, device_id, date, time_block, data))

UploadSedSummary ==
    /\ Idle
    /\ \E filename \in Filenames, device_id \in DeviceIds, date \in Dates, data \in Payloads :
        Upload("upload_sed_summary",
               [filename |-> filename, device_id |-> device_id, date |-> date],
               Key(device_id, date, "sed-summary", "result.json"), data,
               upload_sed_summary(files, dirs, filename, device_id, date, data))

UploadOpensmileSummary ==
    /\ Idle
    /\ \E filename \in Filenames, device_id \in DeviceIds, date \in Dates, data \in Payloads :
        Upload("upload_opensmile_summary",
               [filename |-> filename, device_id |-> device_id, date |-> date],
               Key(device_id, date, "opensmile-summary", "result.json"), data,
               upload_opensmile_summary(files, dirs, filename, device_id, date, data))

UploadOpensmileFeatures ==
    /\ Idle
    /\ \E filename \in Filenames, device_id \in DeviceIds, date \in Dates,
       time_slot \in Slots, data \in Payloads :
        Upload("upload_opensmile_features",
               [filename |-> filename, device_id |-> device_id, date |-> date,
                slot |-> time_slot],
               Key(device_id, date, "opensmile", time_slot), data,
               upload_opensmile_features(files, dirs, filename, device_id, date, time_slot, data))

DownloadFile ==
    /\ Idle
    /\ \E device_id \in DeviceIds, date \in Dates, slot \in Slots :
        Read("download_file", [device_id |-> device_id, date |-> date, slot |-> slot],
             download_file(files, dirs, device_id, date, slot))

DownloadSedFile ==
    /\ Idle
    /\ \E device_id \in DeviceIds, date \in Dates, slot \in Slots :
        Read("download_sed_file", [device_id |-> device_id, date |-> date, slot |-> slot],
             download_sed_file(files, dirs, device_id, date, slot))

DownloadOpensmileFile ==
    /\ Idle
    /\ \E device_id \in DeviceIds, date \in Dates, slot \in Slots :
        Read("download_opensmile_file", [device_id |-> device_id, date |-> date, slot |-> slot],
             download_opensmile_file(files, dirs, device_id, date, slot))

DownloadFileByPath ==
    /\ Idle
    /\ \E file_path \in QueryPaths :
        Read("download_file_by_path", [file_path |-> file_path],
             download_file_by_path(files, dirs, file_path))

ViewFileContent ==
    /\ Idle
    /\ \E file_path \in QueryPaths :
        Read("view_file_content", [file_path |-> file_path],
             view_file_content(files, dirs, file_path))

GetEmotionTimeline ==
    /\ Idle
    /\ \E device_id \in DeviceIds, date \in Dates :
        Read("get_emotion_timeline", [device_id |-> device_id, date |-> date],
             get_emotion_timeline(files, dirs, device_id, date))

GetEmotionTimelineLegacy ==
    /\ Idle
    /\ \E user_id \in DeviceIds, date \in Dates :
        Read("get_emotion_timeline_legacy", [device_id |-> user_id, date |-> date],
             get_emotion_timeline_legacy(files, dirs, user_id, date))

GetSedSummary ==
    /\ Idle
    /\ \E device_id \in DeviceIds, date \in Dates :
        Read("get_sed_summary", [device_id |-> device_id, date |-> date],
             get_sed_summary(files, dirs, device_id, date))

GetSedSummaryLegacy ==
    /\ Idle
    /\ \E user_id \in DeviceIds, date \in Dates :
        Read("get_sed_summary_legacy", [device_id |-> user_id, date |-> date],
             get_sed_summary_legacy(files, dirs, user_id, date))

GetOpensmileFeatures ==
    /\ Idle
    /\ \E device_id \in DeviceIds, date \in Dates, time_slot \in Slots :
        Read("get_opensmile_features",
             [device_id |-> device_id, date |-> date, slot |-> time_slot],
             get_opensmile_features(files, dirs, device_id, date, time_slot))

GetOpensmileFeaturesLegacy ==
    /\ Idle
    /\ \E user_id \in DeviceIds, date \in Dates, time_slot \in Slots :
        Read("get_opensmile_features_legacy",
             [device_id |-> user_id, date |-> date, slot |-> time_slot],
             get_opensmile_features_legacy(files, dirs, user_id, date, time_slot))

GetOpensmileSummary ==
    /\ Idle
    /\ \E device_id \in DeviceIds, date \in Dates :
        Read("get_opensmile_summary", [device_id |-> device_id, date |-> date],
             get_opensmile_summary(files, dirs, device_id, date))

GetOpensmileSummaryLegacy ==
    /\ Idle
    /\ \E user_id \in DeviceIds, date \in Dates :
        Read("get_opensmile_summary_legacy", [device_id |-> user_id, date |-> date],
             get_opensmile_summary_legacy(files, dirs, user_id, date))

ListOpensmileFeatures ==
    /\ Idle
    /\ \E device_id \in DeviceIds, date \in Dates :
        Read("list_opensmile_features", [device_id |-> device_id, date |-> date],
             list_opensmile_features(files, dirs, device_id, date))

ListOpensmileFeaturesLegacy ==
    /\ Idle
    /\ \E user_id \in DeviceIds, date \in Dates :
        Read("list_opensmile_features_legacy", [device_id |-> user_id, date |-> date],
             list_opensmile_features_legacy(files, dirs, user_id, date))

\* GET /status, with the directory order the filesystem happens to give
StatusAll ==
    /\ Idle
    /\ \E iterdir \in IterOrders(dirs, BaseLoc) :
        Read("status_all", [iterdir |-> iterdir], status_all(files, dirs, iterdir))

Next ==
    \/ UploadFile
    \/ UploadTranscription
    \/ UploadPrompt
    \/ UploadEmotionTimeline
    \/ UploadSedTimeline
    \/ UploadSedSummary
    \/ UploadOpensmileSummary
    \/ UploadOpensmileFeatures
    \/ DownloadFile
    \/ DownloadSedFile
    \/ DownloadOpensmileFile
    \/ DownloadFileByPath
    \/ ViewFileContent
    \/ GetEmotionTimeline
    \/ GetEmotionTimelineLegacy
    \/ GetSedSummary
    \/ GetSedSummaryLegacy
    \/ GetOpensmileFeatures
    \/ GetOpensmileFeaturesLegacy
    \/ GetOpensmileSummary
    \/ GetOpensmileSummaryLegacy
    \/ ListOpensmileFeatures
    \/ ListOpensmileFeaturesLegacy
    \/ StatusAll
    \/ SendResponse

Spec == Init /\ [][Next]_vars

-----------------------------------------------------------------------------
(* Uploads in flight together.  /upload and /upload-transcription open the    *)
(* file and then await file.read(): the event loop serves other requests at  *)
(* that point, and the write follows when the handler is resumed.            *)

RequestIds == {1, 2}

InFlight(ep, key, loc, data) ==
    [ep |-> ep, key |-> key, loc |-> loc, data |-> data, pc |-> "await", status |-> 0]

Answered(ep, key, status) ==
    [ep |-> ep, key |-> key, loc |-> <<>>, data |-> "", pc |-> "done", status |-> status]

\* a handler runs up to its await: the directory is made and the file opened
Suspend(r, ep, key, data, o) ==
    /\ files' = o.files
    /\ dirs' = o.dirs
    /\ inflight' = (r :> (IF o.ok THEN InFlight(ep, key, o.loc, data)
                          ELSE Answered(ep, key, 500))) @@ inflight
    /\ UNCHANGED <<resp, lastPut>>

\* POST /upload up to "await file.read()"
BeginUploadFile ==
    \E r \in RequestIds \ DOMAIN inflight, file_path \in HeaderPaths, data \in Payloads :
        IF file_path = "" \/ ~ReMatch(path_pattern, file_path) \/ HasBadPart(file_path)
        THEN /\ inflight' = (r :> Answered("upload_file", HeaderKey(file_path), 400)) @@ inflight
             /\ UNCHANGED <<files, dirs, resp, lastPut>>
        ELSE \E o \in {OpenUpload(files, dirs, Dirname(Join(BASE_DIR, file_path)),
                                  Join(BASE_DIR, file_path))} :
                 Suspend(r, "upload_file", HeaderKey(file_path), data, o)

\* POST /upload-transcription up to "await file.read()"
BeginUploadTranscription ==
    \E r \in RequestIds \ DOMAIN inflight, device_id \in DeviceIds, date \in Dates,
       time_block \in Slots, data \in Payloads :
        \E o \in {OpenUpload(files, dirs, Join4(BASE_DIR, device_id, date, "transcriptions"),
                             Join(Join4(BASE_DIR, device_id, date, "transcriptions"),
                                  time_block \o ".json"))} :
            Suspend(r, "upload_transcription",
                    Key(device_id, date, "transcriptions", time_block), data, o)

\* the handler is resumed: the data is written through its own descriptor and
\* the file closed
FinishUpload ==
    \E r \in DOMAIN inflight :
        /\ inflight[r].pc = "await"
        /\ files' = WriteAtStart(files, inflight[r].loc, inflight[r].data)
        /\ inflight' = [inflight EXCEPT ![r].pc = "done", ![r].status = 200]
        /\ UNCHANGED <<dirs, resp, lastPut>>

\* /view-file and /download-file have no await before they open the file: each
\* is served in one step, also while uploads are suspended
ConcNext ==
    \/ BeginUploadFile
    \/ BeginUploadTranscription
    \/ FinishUpload
    \/ ViewFileContent
    \/ DownloadFileByPath
    \/ SendResponse

ConcSpec == Init /\ [][ConcNext]_vars

-----------------------------------------------------------------------------
(* /status over the trees a data directory can hold.  The date directories   *)
(* are named by the date fields of the uploads, which only /upload checks,   *)
(* and only for their shape; the host may keep files of its own beside them. *)

TreeDevices == {"d", "e"}

\* two dates, the first day of year 1, and a name of the date shape that is no date
TreeDates == {"2025-07-01", "2025-06-30", "0001-01-01", "2025-13-45"}

\* the files of a date directory, by their path beneath it
TreeLeaves ==
    {<<"raw", "08-00.wav">>, <<"raw", "07-30.wav">>, <<"raw", "sub", "z.json">>,
     <<"sed", "08-00.json">>, <<"a b.json">>, <<"zz.txt">>}

\* the date directories of a device: those of d are chosen, e has one
TreeDateDirs(devs, dates) ==
    {BaseLoc \o <<"d", date>> : date \in (IF "d" \in devs THEN dates ELSE {})}
    \cup {BaseLoc \o <<"e", "2025-07-01">> : x \in devs \cap {"e"}}

\* the files: the leaves beneath every directory of 2025-07-01
TreeFiles(devs, dates, leaves) ==
    {dd \o leaf : dd \in {t \in TreeDateDirs(devs, dates) : t[Len(t)] = "2025-07-01"},
                  leaf \in leaves}

TreeInit ==
    /\ resp = NoResp
    /\ lastPut = <<>>
    /\ inflight = <<>>
    /\ \/ /\ dirs = Prefixes(Parent(BaseLoc))
          /\ files \in {<<>>, (BaseLoc :> "")}
       \/ \E devs \in SUBSET TreeDevices, dates \in SUBSET TreeDates,
             leaves \in SUBSET TreeLeaves :
             /\ files = [f \in TreeFiles(devs, dates, leaves) |-> "[1]"]
             /\ dirs = Prefixes(BaseLoc)
                       \cup {Append(BaseLoc, dev) : dev \in devs}
                       \cup TreeDateDirs(devs, dates)
                       \cup UNION {Prefixes(Parent(f)) : f \in TreeFiles(devs, dates, leaves)}

TreeNext ==
    \/ StatusAll
    \/ SendResponse

TreeSpec == TreeInit /\ [][TreeNext]_vars

-----------------------------------------------------------------------------
(* Keys of requests *)

UploadEps ==
    {"upload_file", "upload_transcription", "upload_prompt", "upload_emotion_timeline",
     "upload_sed_timeline", "upload_sed_summary", "upload_opensmile_summary",
     "upload_opensmile_features"}

\* the endpoints that refuse a file part whose name does not end in .json
JsonOnlyEps ==
    {"upload_prompt", "upload_emotion_timeline", "upload_sed_timeline",
     "upload_sed_summary", "upload_opensmile_summary", "upload_opensmile_features"}

SlotDownloadEps == {"download_file", "download_sed_file", "download_opensmile_file"}

PathEps == {"download_file_by_path", "view_file_content"}

JsonGetEps ==
    {"get_emotion_timeline", "get_sed_summary", "get_opensmile_features",
     "get_opensmile_summary"}

ListEps == {"list_opensmile_features", "list_opensmile_features_legacy"}

SlottedCategories == {"raw", "transcriptions", "sed", "opensmile"}

\* the category an endpoint serves
EpCategory(ep) ==
    CASE ep \in {"upload_transcription"} -> "transcriptions"
      [] ep \in {"upload_prompt"} -> "prompt"
      [] ep \in {"upload_emotion_timeline", "get_emotion_timeline",
                 "get_emotion_timeline_legacy"} -> "emotion-timeline"
      [] ep \in {"upload_sed_timeline", "download_sed_file"} -> "sed"
      [] ep \in {"upload_sed_summary", "get_sed_summary", "get_sed_summary_legacy"} -> "sed-summary"
      [] ep \in {"upload_opensmile_summary", "get_opensmile_summary",
                 "get_opensmile_summary_legacy"} -> "opensmile-summary"
      [] ep \in {"upload_opensmile_features", "download_opensmile_file",
                 "get_opensmile_features", "get_opensmile_features_legacy",
                 "list_opensmile_features", "list_opensmile_features_legacy"} -> "opensmile"
      [] ep \in {"download_file"} -> "raw"
      [] OTHER -> ""

\* the fixed file name of a category with one artifact per date
FixedName(category) ==
    CASE category = "prompt" -> "emotion-timeline_gpt_prompt.json"
      [] category = "emotion-timeline" -> "emotion-timeline.json"
      [] OTHER -> "result.json"

\* the file name of a key
FileName(k) ==
    IF k.category \in SlottedCategories
    THEN k.name \o (IF k.category = "raw" THEN ".wav" ELSE ".json")
    ELSE k.name

\* the key a relative path device_id/date/category/filename names
PathKey(file_path) ==
    LET parts == Split(file_path)
    IN  IF Len(parts) # 4 THEN Key("", "", "", "")
        ELSE IF parts[3] = "raw" /\ EndsWith(parts[4], ".wav")
        THEN Key(parts[1], parts[2], parts[3], SubSeq(parts[4], 1, Len(parts[4]) - 4))
        ELSE IF parts[3] \in SlottedCategories /\ EndsWith(parts[4], ".json")
        THEN Key(parts[1], parts[2], parts[3], SubSeq(parts[4], 1, Len(parts[4]) - 5))
        ELSE Key(parts[1], parts[2], parts[3], parts[4])

\* the key a served request is about
ReqKey(r) ==
    IF r.ep \in PathEps \cup {"upload_file"} THEN PathKey(r.args.file_path)
    ELSE IF EpCategory(r.ep) \in SlottedCategories /\ r.ep \notin ListEps
    THEN Key(r.args.device_id, r.args.date, EpCategory(r.ep), r.args.slot)
    ELSE Key(r.args.device_id, r.args.date, EpCategory(r.ep), FixedName(EpCategory(r.ep)))

\* device_id: one or more of [a-zA-Z0-9_-]; date: YYYY-MM-DD; slot: HH-MM
WellFormedId(s) == Len(s) >= 1 /\ \A n \in 1..Len(s) : Ch(s, n) \in IdChars

WellFormedDate(s) ==
    /\ Len(s) = 10
    /\ \A n \in {1, 2, 3, 4, 6, 7, 9, 10} : Ch(s, n) \in Digits
    /\ Ch(s, 5) = "-" /\ Ch(s, 8) = "-"

WellFormedSlot(s) ==
    /\ Len(s) = 5
    /\ \A n \in {1, 2, 4, 5} : Ch(s, n) \in Digits
    /\ Ch(s, 3) = "-"

WellFormedKey(k) ==
    /\ WellFormedId(k.device_id)
    /\ WellFormedDate(k.date)
    /\ IF k.category \in SlottedCategories THEN WellFormedSlot(k.name)
       ELSE k.name = FixedName(k.category)

\* the location root/device_id/date/category/filename of a key
KeyLoc(k) == BaseLoc \o <<k.device_id, k.date, k.category, FileName(k)>>

Beneath(loc, root) == Len(loc) > Len(root) /\ SubSeq(loc, 1, Len(root)) = root

-----------------------------------------------------------------------------
\* C1: when every upload so far had well-formed fields, a download of a
\* well-formed key that has been uploaded answers 200 with exactly the bytes
\* of the last upload to that key: nothing of an earlier, longer payload stays.
C1_RoundTrip ==
    (/\ resp.ep \in SlotDownloadEps \cup {"download_file_by_path"}
     /\ \A k \in DOMAIN lastPut : WellFormedKey(k)
     /\ WellFormedKey(ReqKey(resp))
     /\ ReqKey(resp) \in DOMAIN lastPut)
    => (resp.status = 200 /\ resp.body.bytes = lastPut[ReqKey(resp)].data)

\* a download that returned the shorter payload of a key
C1_Witness ==
    /\ resp.ep \in SlotDownloadEps \cup {"download_file_by_path"}
    /\ \A k \in DOMAIN lastPut : WellFormedKey(k)
    /\ WellFormedKey(ReqKey(resp))
    /\ ReqKey(resp) \in DOMAIN lastPut
    /\ resp.status = 200
    /\ resp.body.bytes = "{"

-----------------------------------------------------------------------------
\* C2: once two uploads to one key that were in flight together have both
\* completed, the file holds exactly one of the two payloads.
C2_LastWriteWins ==
    \A r1, r2 \in DOMAIN inflight :
        (/\ r1 # r2
         /\ inflight[r1].status = 200
         /\ inflight[r2].status = 200
         /\ inflight[r1].key = inflight[r2].key)
        => files[inflight[r1].loc] \in {inflight[r1].data, inflight[r2].data}

-----------------------------------------------------------------------------
\* C3: on the audio upload, /download-file and /view-file a path with a
\* segment that contains '..' or starts with '/' or '\' is turned down and no
\* file is read or written for it.
C3_TraversalRejected ==
    (/\ resp.ep \in PathEps \cup {"upload_file"}
     /\ HasBadPart(resp.args.file_path))
    => (resp.status >= 400 /\ resp.loc = {})

-----------------------------------------------------------------------------
\* the shape device_id/date/raw/slot.wav, read off the four segments
AudioShape(s) ==
    LET parts == Split(s)
    IN  /\ Len(parts) = 4
        /\ WellFormedId(parts[1])
        /\ WellFormedDate(parts[2])
        /\ parts[3] = "raw"
        /\ EndsWith(parts[4], ".wav")
        /\ WellFormedSlot(SubSeq(parts[4], 1, Len(parts[4]) - 4))

\* C4: the audio upload stores the file (200) exactly when X-File-Path has the
\* shape device_id/date/raw/slot.wav and nothing else around it; any other
\* header is answered 400 and the store stays as it was.  Slot 99-99 passes.
C4_AudioPathShape ==
    [][(resp'.ep = "upload_file" /\ resp.ep = "")
       => IF AudioShape(resp'.args.file_path)
          THEN /\ resp'.status = 200
               /\ resp'.loc = {KeyLoc(PathKey(resp'.args.file_path))}
               /\ \A l \in resp'.loc : l \in DOMAIN files'
          ELSE /\ resp'.status = 400
               /\ files' = files
               /\ dirs' = dirs]_vars

\* the upload of slot 99-99 was stored
C4_Witness ==
    /\ resp.ep = "upload_file"
    /\ resp.args.file_path = "d/2025-06-21/raw/99-99.wav"
    /\ resp.status = 200
    /\ KeyLoc(Key("d", "2025-06-21", "raw", "99-99")) \in DOMAIN files

-----------------------------------------------------------------------------
\* C5: on a JSON-only upload endpoint a file part whose name does not end in
\* .json is answered 400 and the store stays as it was: no directory made, no
\* file made, cut or overwritten.
C5_NonJsonWritesNothing ==
    [][(/\ resp.ep = ""
        /\ resp'.ep \in JsonOnlyEps
        /\ ~EndsWith(resp'.args.filename, ".json"))
       => (resp'.status = 400 /\ files' = files /\ dirs' = dirs)]_vars

\* a refused upload to a key that holds an artifact
C5_Witness ==
    /\ resp.ep \in JsonOnlyEps
    /\ ~EndsWith(resp.args.filename, ".json")
    /\ resp.status = 400
    /\ ReqKey(resp) \in DOMAIN lastPut

-----------------------------------------------------------------------------
\* the reads by (device_id, date) and category that the claim names
KeyedReadEps ==
    SlotDownloadEps \cup JsonGetEps \cup {"list_opensmile_features"}

\* no upload so far was for the device, date and category of the request
NothingUploaded(r) ==
    \A k \in DOMAIN lastPut :
        ~(/\ k.device_id = r.args.device_id
          /\ k.date = r.args.date
          /\ k.category = EpCategory(r.ep))

NoUploadWrote(r) ==
    \A k \in DOMAIN lastPut : lastPut[k].loc # {Resolve(dirs, r.path).loc}

-----------------------------------------------------------------------------
\* C7: the slot listing reports has_summary = true exactly when
\* device_id/date/opensmile-summary/result.json exists.
C7_HasSummary ==
    resp.ep = "list_opensmile_features"
    => /\ resp.status = 200
       /\ resp.body.has_summary =
              Exists(files, dirs,
                     Join5(BASE_DIR, resp.args.device_id, resp.args.date,
                           "opensmile-summary", "result.json"))

-----------------------------------------------------------------------------
\* what the device-keyed handler answers to the arguments of a legacy request
DeviceAnswer(r) ==
    CASE r.ep = "get_emotion_timeline_legacy" ->
             get_emotion_timeline(files, dirs, r.args.device_id, r.args.date)
      [] r.ep = "get_sed_summary_legacy" ->
             get_sed_summary(files, dirs, r.args.device_id, r.args.date)
      [] r.ep = "get_opensmile_features_legacy" ->
             get_opensmile_features(files, dirs, r.args.device_id, r.args.date, r.args.slot)
      [] r.ep = "get_opensmile_summary_legacy" ->
             get_opensmile_summary(files, dirs, r.args.device_id, r.args.date)
      [] r.ep = "list_opensmile_features_legacy" ->
             list_opensmile_features(files, dirs, r.args.device_id, r.args.date)

LegacyEps ==
    {"get_emotion_timeline_legacy", "get_sed_summary_legacy", "get_opensmile_features_legacy",
     "get_opensmile_summary_legacy", "list_opensmile_features_legacy"}

\* C8: a legacy user_id-keyed endpoint answers as its device_id-keyed
\* counterpart does in the same store for the same identifier, date and slot:
\* the same path, status code and body.
C8_LegacyAgrees ==
    resp.ep \in LegacyEps
    => DeviceAnswer(resp) =
           [status |-> resp.status, body |-> resp.body, path |-> resp.path, loc |-> resp.loc]

\* a legacy fetch that returned a stored summary
C8_Witness ==
    /\ resp.ep = "get_sed_summary_legacy"
    /\ resp.status = 200
    /\ resp.body.document = "[1]"

-----------------------------------------------------------------------------
\* C9: uploads with distinct keys never write to the same location.
C9_NoCollision ==
    \A k1, k2 \in DOMAIN lastPut : k1 # k2 => lastPut[k1].loc # lastPut[k2].loc

-----------------------------------------------------------------------------
\* C10: the file an upload, a slot download or a JSON fetch touches is
\* root/device_id/date/category/filename, beneath the root, the same for the
\* upload and the read of a key.
C10_CanonicalLocation ==
    (/\ resp.ep \in UploadEps \cup SlotDownloadEps \cup JsonGetEps
     /\ resp.loc # {})
    => /\ resp.loc = {KeyLoc(ReqKey(resp))}
       /\ \A l \in resp.loc : Beneath(l, BaseLoc)

-----------------------------------------------------------------------------
\* C11: no request removes a file or a directory: every file of the store is
\* a file of the store after any step, and so is every directory, so a path
\* that exists keeps existing (an overwriting upload keeps the file in place).
C11_NeverDeleted ==
    [][/\ \A l \in DOMAIN files : l \in DOMAIN files'
       /\ \A d \in dirs : d \in dirs']_vars

\* an upload was stored beside a file that was there before it, and both exist
C11_Witness ==
    /\ resp.ep = "upload_file"
    /\ resp.status = 200
    /\ \E l \in DOMAIN files : l \notin resp.loc /\ \A m \in resp.loc : Parent(m) = Parent(l)

-----------------------------------------------------------------------------
\* the JSON reads: the four fetches by key and /view-file of a .json path
JsonReadEps == JsonGetEps \cup {"view_file_content"}

\* the bytes are a JSON text: UTF-8, and one JSON value with nothing after it
ValidJson(bytes) == Utf8Decodes(bytes) /\ JsonLoad(bytes).ok

\* C12: a JSON read answers by the file alone: 404 when it is missing, 400
\* when it exists and its content is not a JSON text, whatever keeps it from
\* being one, and the parsed document (200) when it is; 500 is left for other
\* failures, such as a path that is not a regular file.
C12_JsonReadOutcome ==
    (/\ resp.ep \in JsonReadEps
     /\ resp.ep = "view_file_content" => EndsWith(resp.args.file_path, ".json"))
    => LET r == Resolve(dirs, resp.path)
       IN  IF ~Exists(files, dirs, resp.path) THEN resp.status = 404
           ELSE IF r.loc \notin DOMAIN files THEN resp.status = 500
           ELSE IF ValidJson(files[r.loc])
           THEN resp.status = 200 /\ resp.body.document = JsonLoad(files[r.loc]).out
           ELSE resp.status = 400

-----------------------------------------------------------------------------
\* C13: when the uploads so far are opensmile-features uploads for one device
\* and date, the slot listing of that device and date answers with exactly
\* the time_slot values uploaded, each once, in ascending order, count is the
\* length of the list, and the per-slot fetch finds every listed slot.
C13_ListingMatchesUploads ==
    (/\ resp.ep = "list_opensmile_features"
     /\ \A k \in DOMAIN lastPut : /\ k.category = "opensmile"
                                  /\ k.device_id = resp.args.device_id
                                  /\ k.date = resp.args.date)
    => /\ resp.status = 200
       /\ LET slots == resp.body.available_slots
          IN  /\ {slots[i] : i \in 1..Len(slots)} = {k.name : k \in DOMAIN lastPut}
              /\ \A i \in 1..(Len(slots) - 1) : StrLess(slots[i], slots[i + 1])
              /\ resp.body.count = Len(slots)
              /\ \A i \in 1..Len(slots) :
                     get_opensmile_features(files, dirs, resp.args.device_id,
                                            resp.args.date, slots[i]).status # 404

-----------------------------------------------------------------------------
\* the names of the date lines from line i up to the next device line
RECURSIVE DateLinesFrom(_, _)
DateLinesFrom(lines, i) ==
    IF i > Len(lines) \/ lines[i].kind = "device" THEN <<>>
    ELSE IF lines[i].kind = "date" THEN <<lines[i].name>> \o DateLinesFrom(lines, i + 1)
    ELSE DateLinesFrom(lines, i + 1)

\* the date names the page shows beneath a device, in the order of the page
DatesShown(lines, device) ==
    LET i == CHOOSE n \in 1..Len(lines) : lines[n].kind = "device" /\ lines[n].name = device
    IN  DateLinesFrom(lines, i + 1)

\* the name is a calendar date written year-month-day
IsDate(s) == strptime(s).ok

\* the date of a is later in the calendar than the date of b
LaterDate(a, b) ==
    LET x == strptime(a)
        y == strptime(b)
    IN  \/ x.year > y.year
        \/ x.year = y.year /\ x.month > y.month
        \/ x.year = y.year /\ x.month = y.month /\ x.day > y.day

\* C14: beneath every device the page shows the names of its date directories,
\* each once; of two names that are dates the later one is never below the
\* earlier one; a name that is no date is never above a name that is one.
C14_DatesDescending ==
    (resp.ep = "status_all" /\ resp.body.page = "listing")
    => \A d \in DOMAIN resp.args.iterdir :
           LET given == resp.args.iterdir[d]
               shown == DatesShown(resp.body.lines, d[Len(d)])
           IN  /\ Len(shown) = Len(given)
               /\ {shown[i] : i \in 1..Len(shown)} = {given[i] : i \in 1..Len(given)}
               /\ \A i, j \in 1..Len(shown) :
                      i < j => /\ (IsDate(shown[i]) /\ IsDate(shown[j]))
                                  => ~LaterDate(shown[j], shown[i])
                               /\ ~(~IsDate(shown[i]) /\ IsDate(shown[j]))

-----------------------------------------------------------------------------
\* the line a line hangs from: the nearest line above it that is indented
\* less, empty lines aside; 0 when there is none
ParentLine(lines, i) ==
    LET above == {k \in 1..(i - 1) : lines[k].kind # "" /\ lines[k].indent < lines[i].indent}
    IN  IF above = {} THEN 0 ELSE CHOOSE k \in above : \A m \in above : m <= k

\* the directory or file a line stands for, read off the lines it hangs from
RECURSIVE LinePath(_, _)
LinePath(lines, i) ==
    IF ParentLine(lines, i) = 0 THEN Append(BaseLoc, lines[i].name)
    ELSE Append(LinePath(lines, ParentLine(lines, i)), lines[i].name)

\* C15: on the page the devices are in ascending order; the lines that hang
\* from one date or directory line are exactly the entries of that directory,
\* so every subtree follows its own line at once; among them no file is above
\* a subdirectory, and the subdirectories and the files are each ascending.
C15_DirsBeforeFiles ==
    (resp.ep = "status_all" /\ resp.body.page = "listing")
    => LET lines == resp.body.lines
           par == [i \in 1..Len(lines) |-> ParentLine(lines, i)]
       IN  /\ {lines[i].name : i \in {n \in 1..Len(lines) : lines[n].kind = "device"}}
                  = SubdirNames(dirs, BaseLoc)
           /\ \A i, j \in 1..Len(lines) :
                  (i < j /\ lines[i].kind = "device" /\ lines[j].kind = "device")
                  => StrLess(lines[i].name, lines[j].name)
           /\ \A i, j \in 1..Len(lines) :
                  (/\ i < j
                   /\ lines[i].kind \in {"dir", "file"}
                   /\ lines[j].kind \in {"dir", "file"}
                   /\ par[i] = par[j])
                  => /\ ~(lines[i].kind = "file" /\ lines[j].kind = "dir")
                     /\ lines[i].kind = lines[j].kind => StrLess(lines[i].name, lines[j].name)
           /\ \A k \in 1..Len(lines) :
                  lines[k].kind \in {"date", "dir"}
                  => /\ {lines[i].name : i \in {n \in 1..Len(lines) :
                                                   par[n] = k /\ lines[n].kind = "dir"}}
                            = SubdirNames(dirs, LinePath(lines, k))
                     /\ {lines[i].name : i \in {n \in 1..Len(lines) :
                                                   par[n] = k /\ lines[n].kind = "file"}}
                            = FileNames(files, LinePath(lines, k))

\* a page with two devices where a date directory holds subdirectories and
\* files, one of the files named before the subdirectories, and a directory
\* within a subdirectory
C15_Witness ==
    /\ resp.ep = "status_all"
    /\ resp.body.page = "listing"
    /\ \E i, j, k, m \in 1..Len(resp.body.lines) :
           /\ resp.body.lines[i].kind = "device" /\ resp.body.lines[j].kind = "device" /\ i < j
           /\ resp.body.lines[k] = [kind |-> "dir", name |-> "sub", indent |-> 12, links |-> <<>>]
           /\ resp.body.lines[m].kind = "file" /\ resp.body.lines[m].name = "a b.json"
           /\ k < m

-----------------------------------------------------------------------------
\* C16: /status answers 200 with a page in every store: the message page when
\* BASE_DIR does not exist, a listing without lines when it is an empty
\* directory, the listing when it is a directory, and the page of the except
\* branch when a step raises, as the listing of a BASE_DIR that is a file does.
C16_StatusNeverFails ==
    resp.ep = "status_all"
    => /\ resp.status = 200
       /\ resp.body.page \in {"missing", "listing", "error"}
       /\ ~Exists(files, dirs, BASE_DIR) <=> resp.body.page = "missing"
       /\ BaseLoc \in dirs <=> resp.body.page = "listing"
       /\ BaseLoc \in DOMAIN files <=> resp.body.page = "error"
       /\ (BaseLoc \in dirs /\ SubdirNames(dirs, BaseLoc) = {}) => resp.body.lines = <<>>

\* the page of the except branch was answered
C16_Witness ==
    /\ resp.ep = "status_all"
    /\ resp.status = 200
    /\ resp.body.page = "error"
    /\ BaseLoc \in DOMAIN files

-----------------------------------------------------------------------------
\* the payloads of the uploads that opened the file a read has read
PayloadsOf(r) ==
    {inflight[u].data : u \in {v \in DOMAIN inflight : inflight[v].loc \in r.loc}}

\* C17: a read of a file that uploads write, each of them with a JSON text,
\* sees one of the payloads whole, also between an upload's open and its
\* write: /download-file answers the bytes of one of the payloads and
\* /view-file does not answer 400.
C17_ReadSeesWholePayload ==
    (/\ resp.ep \in PathEps
     /\ PayloadsOf(resp) # {}
     /\ \A data \in PayloadsOf(resp) : ValidJson(data))
    => /\ resp.ep = "download_file_by_path" => resp.body.bytes \in PayloadsOf(resp)
       /\ resp.ep = "view_file_content" => resp.status # 400

====
